---- MODULE Spec2Model ----
(***************************************************************************)
(* A model of the freesurfer_analyses orchestration code: the three stage  *)
(* functions (region labeling, statistics extraction, table export), the   *)
(* measure validator, the command templates, and the dataset-level runs.   *)
(*                                                                         *)
(* Strings and paths are sequences of atoms: a word without delimiter, or  *)
(* one of the delimiters "/", "." and "_".  str.format is concatenation.   *)
(***************************************************************************)
EXTENDS Integers, Sequences, FiniteSets, TLC

VARIABLES fs, environ, last, ncalls, vres, dres, tres, pres

vars == <<fs, environ, last, ncalls, vres, dres, tres, pres>>

(***************************************************************************)
(* Bounds of the model.                                                    *)
(***************************************************************************)
MaxCalls == 2

\* the number of dataset runs in a behaviour of the dataset specification
MaxRuns == 2

\* the number of fragments merged into one table: one per hemisphere
MaxMerges == 2

(***************************************************************************)
(* Strings and paths.                                                      *)
(***************************************************************************)
Slash == <<"/">>
Dot == <<".">>
Under == <<"_">>

\* pathlib: p / q
Join(p, q) == p \o Slash \o q

\* index of the last "/" atom of p, 0 when there is none
LastSlash(p) ==
    LET idx == {i \in 1..Len(p) : p[i] = "/"}
    IN IF idx = {} THEN 0 ELSE CHOOSE i \in idx : \A j \in idx : j <= i

\* pathlib: Path(p).parent
Parent(p) == IF LastSlash(p) = 0 THEN <<".">> ELSE SubSeq(p, 1, LastSlash(p) - 1)

\* pathlib: Path(p).name
Name(p) == SubSeq(p, LastSlash(p) + 1, Len(p))

\* str.lower() on the region labels the model uses
Lower(h) == IF h = <<"Subcortex">> THEN <<"subcortex">> ELSE h

(***************************************************************************)
(* Class constants.                                                        *)
(***************************************************************************)
HEMISPHERES_LABELS == {<<"lh">>, <<"rh">>}
SUBCORTICAL_LABELS == {<<"subcortex">>}

CORTICAL_MEASURES ==
    { <<"area">>, <<"volume">>, <<"thickness">>, <<"thicknessstd">>,
      <<"thickness", ".", "T1">>, <<"meancurv">>, <<"gauscurv">>,
      <<"foldind">>, <<"curvind">> }

SUBCORTICAL_MEASURES == { <<"volume">>, <<"std">>, <<"mean">> }

\* the registry of parcellation schemes (brain_parts.Parcellation.parcellations):
\* schemeX defines every entry, schemeY defines none of the entries the stages read
Schemes == { <<"schemeX">>, <<"schemeY">> }

parcellations(scheme, key) ==
    IF scheme = <<"schemeX">>
    THEN CASE key = "gcs"           -> <<"atlasX", ".", "gcs">>
           [] key = "gcs_subcortex" -> <<"atlasX", "_", "subcortex", ".", "gca">>
           [] key = "ctab"          -> <<"atlasX", ".", "ctab">>
           [] OTHER                 -> <<>>
    ELSE <<>>

(***************************************************************************)
(* Inputs the calls are drawn from.                                        *)
(***************************************************************************)
Sources == { <<"dirA", "/", "sub1">>, <<"dirB", "/", "sub2">> }

\* the three region labels, a differently cased subcortex, an unknown label
Hemis == { <<"lh">>, <<"rh">>, <<"subcortex">>, <<"Subcortex">>, <<"vermis">> }

KnownHemis == HEMISPHERES_LABELS \cup SUBCORTICAL_LABELS

\* thickness is permitted for the hemispheres only, mean for the subcortex only
CallMeasures == { <<"thickness">>, <<"mean">> }

AllMeasures == CORTICAL_MEASURES \cup SUBCORTICAL_MEASURES \cup { <<"bogus">> }

NoEnv == <<>>
NoMeasure == <<>>

(***************************************************************************)
(* Output name patterns and canonical output paths.                        *)
(***************************************************************************)
\* NativeRegistration.DEFAULT_CORTICAL_OUTPUT_PATTERN "{hemi}.{parcellation_scheme}.annot"
DEFAULT_CORTICAL_OUTPUT_PATTERN(hemi, scheme) == hemi \o Dot \o scheme \o Dot \o <<"annot">>

\* NativeRegistration.DEFAULT_SUBCORTICAL_OUTPUT_PATTERN "{parcellation_scheme}_subcortex.mgz"
DEFAULT_SUBCORTICAL_OUTPUT_PATTERN(scheme) ==
    scheme \o Under \o <<"subcortex">> \o Dot \o <<"mgz">>

\* NativeParcellation.DEFAULT_CORTICAL_STATS_PATTERN "{hemi}.{parcellation_scheme}.stats"
DEFAULT_CORTICAL_STATS_PATTERN(hemi, scheme) == hemi \o Dot \o scheme \o Dot \o <<"stats">>

\* NativeParcellation.DEFAULT_SUBCORTICAL_STATS_PATTERN "{parcellation_scheme}_subcortex.stats"
DEFAULT_SUBCORTICAL_STATS_PATTERN(scheme) ==
    scheme \o Under \o <<"subcortex">> \o Dot \o <<"stats">>

\* NativeParcellation.DEFAULT_CORTICAL_TABLES_PATTERN "{hemi}_{measure}.{parcellation_scheme}.csv"
DEFAULT_CORTICAL_TABLES_PATTERN(hemi, measure, scheme) ==
    hemi \o Under \o measure \o Dot \o scheme \o Dot \o <<"csv">>

\* NativeParcellation.DEFAULT_SUBCORTICAL_TABLES_PATTERN "{parcellation_scheme}_subcortex_{measure}.csv"
DEFAULT_SUBCORTICAL_TABLES_PATTERN(scheme, measure) ==
    scheme \o Under \o <<"subcortex">> \o Under \o measure \o Dot \o <<"csv">>

\* the two branches of every build_*_output_dictionary and of every stage
IsHemisphere(hemi) == hemi \in HEMISPHERES_LABELS

\* the second branch, were it a plain else
IsSubcortex_else(hemi) == ~IsHemisphere(hemi)

IsSubcortex(hemi) == ~IsHemisphere(hemi) /\ Lower(hemi) = <<"subcortex">>

\* the output_file of NativeRegistration.build_output_dictionary
LabelOutputFile(source_file, scheme, hemi) ==
    IF IsHemisphere(hemi)
    THEN Join(Join(source_file, <<"label">>), DEFAULT_CORTICAL_OUTPUT_PATTERN(hemi, scheme))
    ELSE Join(Join(source_file, <<"mri">>), DEFAULT_SUBCORTICAL_OUTPUT_PATTERN(scheme))

\* the output_file of NativeParcellation.build_stats_output_dictionary
StatsOutputFile(source_file, scheme, hemi) ==
    IF IsHemisphere(hemi)
    THEN Join(Join(source_file, <<"stats">>), DEFAULT_CORTICAL_STATS_PATTERN(hemi, scheme))
    ELSE Join(Join(source_file, <<"stats">>), DEFAULT_SUBCORTICAL_STATS_PATTERN(scheme))

\* the output_file of NativeParcellation.build_table_output_dictionary
TableOutputFile(source_file, scheme, hemi, measure) ==
    IF IsHemisphere(hemi)
    THEN Join(Join(source_file, <<"stats">>),
              DEFAULT_CORTICAL_TABLES_PATTERN(hemi, measure, scheme))
    ELSE Join(Join(source_file, <<"stats">>),
              DEFAULT_SUBCORTICAL_TABLES_PATTERN(scheme, measure))

(***************************************************************************)
(* Measure validation.  The result is "ok" or the message of the           *)
(* ValueError that is raised.                                              *)
(***************************************************************************)
\* mutant of validate_measure: one set of measures for every region label
validate_measure_anygroup(hemi, measure) ==
    IF measure \notin CORTICAL_MEASURES \cup SUBCORTICAL_MEASURES
    THEN "Cannot run cortical statistics"
    ELSE "ok"

validate_measure(hemi, measure) ==
    IF hemi \in HEMISPHERES_LABELS /\ measure \notin CORTICAL_MEASURES
    THEN "Cannot run cortical statistics"
    ELSE IF hemi \in SUBCORTICAL_LABELS /\ measure \notin SUBCORTICAL_MEASURES
    THEN "Cannot run subcortical statistics"
    ELSE "ok"

\* TransformationManager.check_measure
check_measure(measure, hemi) ==
    IF hemi \in HEMISPHERES_LABELS /\ measure \notin CORTICAL_MEASURES
    THEN "Cannot run cortical statistics"
    ELSE IF hemi \in SUBCORTICAL_LABELS /\ measure \notin SUBCORTICAL_MEASURES
    THEN "Cannot run subcortical statistics"
    ELSE "ok"

(***************************************************************************)
(* Command templates.  A command is a record of the tool and the values    *)
(* substituted for the template's options.                                 *)
(***************************************************************************)
\* registrations.utils.CORTEX_MAPPING_CMD (labels one hemisphere, writes the .annot)
CORTEX_MAPPING_CMD(input_dir, subject_id, hemi, parcellation_gcs, scheme) ==
    [ tool |-> "mris_ca_label", subject |-> subject_id, hemi |-> hemi,
      gcs |-> parcellation_gcs,
      annot |-> Join(Join(Join(input_dir, subject_id), <<"label">>),
                     hemi \o Dot \o scheme \o Dot \o <<"annot">>) ]

\* registrations.utils.SUBCORTEX_MAPPING_CMD (labels the subcortex, writes the .mgz)
SUBCORTEX_MAPPING_CMD(input_dir, subject_id, parcellation_gca, scheme) ==
    [ tool |-> "mri_ca_label", subject |-> subject_id, gca |-> parcellation_gca,
      mgz |-> Join(Join(Join(input_dir, subject_id), <<"mri">>),
                   scheme \o Under \o <<"subcortex">> \o Dot \o <<"mgz">>) ]

\* the template, were its annotation the default annotation of the hemisphere
PARCELLATION_CORTICAL_STATISTICS_CMD_aparc(input_dir, subject_id, hemi, scheme, lut) ==
    [ tool |-> "mris_anatomical_stats",
      cortex |-> Join(Join(Join(input_dir, subject_id), <<"label">>),
                      <<"lh", ".", "cortex", ".", "label">>),
      f |-> Join(Join(Join(input_dir, subject_id), <<"stats">>),
                 hemi \o Dot \o scheme \o Dot \o <<"stats">>),
      a |-> Join(Join(Join(input_dir, subject_id), <<"label">>),
                 hemi \o Dot \o <<"aparc">> \o Dot \o <<"annot">>),
      c |-> lut, subject |-> subject_id, hemi |-> hemi ]

PARCELLATION_CORTICAL_STATISTICS_CMD(input_dir, subject_id, hemi, scheme, lut) ==
    [ tool |-> "mris_anatomical_stats",
      cortex |-> Join(Join(Join(input_dir, subject_id), <<"label">>),
                      <<"lh", ".", "cortex", ".", "label">>),
      f |-> Join(Join(Join(input_dir, subject_id), <<"stats">>),
                 hemi \o Dot \o scheme \o Dot \o <<"stats">>),
      a |-> Join(Join(Join(input_dir, subject_id), <<"label">>),
                 hemi \o Dot \o scheme \o Dot \o <<"annot">>),
      c |-> lut, subject |-> subject_id, hemi |-> hemi ]

PARCELLATION_SUBCORTICAL_STATISTICS_CMD(input_dir, subject_id, scheme, gca) ==
    [ tool |-> "mri_segstats",
      seg |-> Join(Join(Join(input_dir, subject_id), <<"mri">>),
                   scheme \o Under \o <<"subcortex">> \o Dot \o <<"mgz">>),
      ctab_gca |-> gca,
      sum |-> Join(Join(Join(input_dir, subject_id), <<"stats">>),
                   scheme \o Under \o <<"subcortex">> \o Dot \o <<"stats">>) ]

CORTICAL_STATS_TO_TABLE_CMD_dotted(input_dir, subject_id, hemi, scheme, measure) ==
    [ tool |-> "aparcstats2table", subjects |-> subject_id, hemi |-> hemi,
      parc |-> scheme, meas |-> measure,
      tablefile |-> Join(Join(Join(input_dir, subject_id), <<"stats">>),
                         hemi \o Dot \o measure \o Dot \o scheme \o Dot \o <<"csv">>) ]

CORTICAL_STATS_TO_TABLE_CMD(input_dir, subject_id, hemi, scheme, measure) ==
    [ tool |-> "aparcstats2table", subjects |-> subject_id, hemi |-> hemi,
      parc |-> scheme, meas |-> measure,
      tablefile |-> Join(Join(Join(input_dir, subject_id), <<"stats">>),
                         hemi \o Under \o measure \o Dot \o scheme \o Dot \o <<"csv">>) ]

SUBCORTICAL_STATS_TO_TABLE_CMD(subcortex_stats, input_dir, subject_id, scheme, measure) ==
    [ tool |-> "asegstats2table", inputs |-> subcortex_stats, meas |-> measure,
      tablefile |-> Join(Join(Join(input_dir, subject_id), <<"stats">>),
                         scheme \o Under \o <<"subcortex">> \o Under \o measure
                             \o Dot \o <<"csv">>) ]

\* the file a tool writes when it succeeds: the output option of its command line
ToolOutput(cmd) ==
    CASE cmd.tool = "mris_ca_label"         -> cmd.annot
      [] cmd.tool = "mri_ca_label"          -> cmd.mgz
      [] cmd.tool = "mris_anatomical_stats" -> cmd.f
      [] cmd.tool = "mri_segstats"          -> cmd.sum
      [] OTHER                              -> cmd.tablefile

(***************************************************************************)
(* The run of one call.  A run m carries the filesystem (the set of        *)
(* existing paths), the SUBJECTS_DIR environment variable, the events of   *)
(* the call so far, the exception raised (if any) and the value returned.  *)
(***************************************************************************)
ToolOutcomes == {"ok", "fail"}

EvProbe(stage, path, exists) ==
    [type |-> "probe", stage |-> stage, arg |-> [path |-> path, exists |-> exists]]
EvSetenv(stage, value) == [type |-> "setenv", stage |-> stage, arg |-> value]
EvSpawn(stage, cmd, env) ==
    [type |-> "spawn", stage |-> stage, arg |-> [cmd |-> cmd, env |-> env]]
EvExit(stage, code) == [type |-> "exit", stage |-> stage, arg |-> code]

NoRet == [path |-> <<>>, exists |-> FALSE]

Start(files, env) ==
    [fs |-> files, env |-> env, ev |-> <<>>, exc |-> "none", msg |-> "", ret |-> NoRet]

Raise(m, exc, msg) == [m EXCEPT !.exc = exc, !.msg = msg]

OutputDictionary_cwd(m, stage, output_file) ==
    [m EXCEPT !.ev = Append(@, EvProbe(stage, Join(m.env, output_file),
                                       output_file \in m.fs)),
              !.ret = [path |-> Join(m.env, output_file), exists |-> output_file \in m.fs]]

\* {"path": output_file, "exists": output_file.exists()}
OutputDictionary(m, stage, output_file) ==
    [m EXCEPT !.ev = Append(@, EvProbe(stage, output_file, output_file \in m.fs)),
              !.ret = [path |-> output_file, exists |-> output_file \in m.fs]]

\* os.environ["SUBJECTS_DIR"] = str(subjects_dir)
set_subjects_dir(m, stage, subjects_dir) ==
    [m EXCEPT !.env = subjects_dir, !.ev = Append(@, EvSetenv(stage, subjects_dir))]

Popen_detached(m, stage, cmd, outcome) ==
    [m EXCEPT !.fs = IF outcome = "ok" THEN @ \cup {ToolOutput(cmd)} ELSE @,
              !.ev = Append(@, EvSpawn(stage, cmd, m.env))]

\* the call, were the outputs dictionary probed again once the process has ended
Popen_refresh(m, stage, cmd, outcome) ==
    [m EXCEPT !.fs = IF outcome = "ok" THEN @ \cup {ToolOutput(cmd)} ELSE @,
              !.ev = @ \o << EvSpawn(stage, cmd, m.env),
                             EvExit(stage, IF outcome = "ok" THEN 0 ELSE 1) >>,
              !.ret = [path |-> m.ret.path,
                       exists |-> m.ret.exists \/ outcome = "ok"]]

\* subprocess.Popen(cmd, shell=True, stdout=PIPE).stdout followed by out.read():
\* the process is started in the current environment and the call blocks until it
\* has ended; the tool either writes its output file and exits 0, or exits 1
\* having written nothing.  The exit status is not looked at.
Popen(m, stage, cmd, outcome) ==
    [m EXCEPT !.fs = IF outcome = "ok" THEN @ \cup {ToolOutput(cmd)} ELSE @,
              !.ev = @ \o << EvSpawn(stage, cmd, m.env),
                             EvExit(stage, IF outcome = "ok" THEN 0 ELSE 1) >>]

(***************************************************************************)
(* NativeRegistration: the region-labeling stage.                          *)
(***************************************************************************)
build_output_dictionary(m, source_file, scheme, hemi) ==
    IF IsHemisphere(hemi) \/ IsSubcortex(hemi)
    THEN OutputDictionary(m, "label", LabelOutputFile(source_file, scheme, hemi))
    ELSE Raise(m, "UnboundLocalError", "output_file")

configure_cortex_mapping_command(source_file, scheme, hemi) ==
    CORTEX_MAPPING_CMD(Parent(source_file), Name(source_file), hemi,
                       parcellations(scheme, "gcs"), scheme)

configure_subcortex_mapping_command(source_file, scheme) ==
    SUBCORTEX_MAPPING_CMD(Parent(source_file), Name(source_file),
                          parcellations(scheme, "gcs_subcortex"), scheme)

\* mutants of MustRun: a stage that never consults its cache, a stage that
\* ignores force, and a stage that runs again whenever force is absent
MustRun_always(exists, force) == TRUE
MustRun_noforce(exists, force) == ~exists
MustRun_inverted(exists, force) == exists \/ force

\* "if not outputs["exists"] or force": whether the stage executes its command
MustRun(exists, force) == ~exists \/ force

\* the body of run_single_hemisphere after outputs (the run m1) has been built
LabelStage(m1, source_file, scheme, hemi, force, outcome) ==
    IF m1.exc # "none" THEN m1
    ELSE IF ~MustRun(m1.ret.exists, force) THEN m1
    ELSE IF IsHemisphere(hemi)
    THEN IF parcellations(scheme, "gcs") = <<>>
         THEN Raise(m1, "ValueError", "No parcellation scheme found")
         ELSE Popen(m1, "label",
                    configure_cortex_mapping_command(source_file, scheme, hemi), outcome)
    ELSE IF parcellations(scheme, "gcs_subcortex") = <<>>
         THEN Raise(m1, "ValueError", "No parcellation scheme found")
         ELSE Popen(m1, "label",
                    configure_subcortex_mapping_command(source_file, scheme), outcome)

Registration_run_single_hemisphere(m, source_file, scheme, hemi, force, outcome) ==
    LabelStage(build_output_dictionary(m, source_file, scheme, hemi),
               source_file, scheme, hemi, force, outcome)

(***************************************************************************)
(* NativeParcellation: the statistics and the export stage.                *)
(***************************************************************************)
build_stats_output_dictionary(m, source_file, scheme, hemi) ==
    IF IsHemisphere(hemi) \/ IsSubcortex(hemi)
    THEN OutputDictionary(m, "stats", StatsOutputFile(source_file, scheme, hemi))
    ELSE Raise(m, "UnboundLocalError", "output_file")

build_table_output_dictionary(m, source_file, scheme, hemi, measure) ==
    IF validate_measure(hemi, measure) # "ok"
    THEN Raise(m, "ValueError", validate_measure(hemi, measure))
    ELSE IF IsHemisphere(hemi) \/ IsSubcortex(hemi)
    THEN OutputDictionary(m, "export", TableOutputFile(source_file, scheme, hemi, measure))
    ELSE Raise(m, "UnboundLocalError", "output_file")

\* the entry of the scheme under key, <<>> when the scheme has none
validate_parcellation(scheme, key) == parcellations(scheme, key)

configure_cortex_parcellation_command(source_file, scheme, hemi) ==
    PARCELLATION_CORTICAL_STATISTICS_CMD(Parent(source_file), Name(source_file), hemi,
                                         scheme, validate_parcellation(scheme, "ctab"))

configure_subcortex_parcellation_command(source_file, scheme) ==
    PARCELLATION_SUBCORTICAL_STATISTICS_CMD(Parent(source_file), Name(source_file), scheme,
                                            validate_parcellation(scheme, "gcs_subcortex"))

configure_cortex_transformation_command(source_file, scheme, measure, hemi) ==
    CORTICAL_STATS_TO_TABLE_CMD(Parent(source_file), Name(source_file), hemi, scheme,
                                measure)

configure_subcortical_transformation_command(source_file, scheme, measure, stats_file) ==
    SUBCORTICAL_STATS_TO_TABLE_CMD(stats_file, Parent(source_file), Name(source_file),
                                   scheme, measure)

\* the body of parcellate_single_hemisphere after outputs (the run m1) has been
\* built; SUBJECTS_DIR is set before the command is configured
StatsStage(m1, source_file, scheme, hemi, force, outcome) ==
    IF m1.exc # "none" THEN m1
    ELSE IF ~MustRun(m1.ret.exists, force) THEN m1
    ELSE IF IsHemisphere(hemi)
    THEN IF validate_parcellation(scheme, "ctab") = <<>>
         THEN Raise(set_subjects_dir(m1, "stats", Parent(source_file)),
                    "ValueError", "No available key was found")
         ELSE Popen(set_subjects_dir(m1, "stats", Parent(source_file)), "stats",
                    configure_cortex_parcellation_command(source_file, scheme, hemi),
                    outcome)
    ELSE IF validate_parcellation(scheme, "gcs_subcortex") = <<>>
         THEN Raise(set_subjects_dir(m1, "stats", Parent(source_file)),
                    "ValueError", "No available key was found")
         ELSE Popen(set_subjects_dir(m1, "stats", Parent(source_file)), "stats",
                    configure_subcortex_parcellation_command(source_file, scheme),
                    outcome)

parcellate_single_hemisphere(m, source_file, scheme, hemi, force, outcome) ==
    StatsStage(build_stats_output_dictionary(m, source_file, scheme, hemi),
               source_file, scheme, hemi, force, outcome)

\* the body of the export step after outputs (the run m1) has been built;
\* parcellation_outputs is what the statistics stage returned
ExportStage(m1, parcellation_outputs, source_file, scheme, hemi, measure, force, outcome) ==
    IF m1.exc # "none" THEN m1
    ELSE IF ~MustRun(m1.ret.exists, force) THEN m1
    ELSE IF IsHemisphere(hemi)
    THEN Popen(set_subjects_dir(m1, "export", Parent(source_file)), "export",
               configure_cortex_transformation_command(source_file, scheme, measure, hemi),
               outcome)
    ELSE Popen(set_subjects_dir(m1, "export", Parent(source_file)), "export",
               configure_subcortical_transformation_command(
                   source_file, scheme, measure, parcellation_outputs.path),
               outcome)

\* the export step of run_single_hemisphere, entered with the run m1 in which the
\* statistics stage has returned
ExportStep(m1, source_file, scheme, hemi, measure, force, outcome) ==
    IF m1.exc # "none" THEN m1
    ELSE ExportStage(build_table_output_dictionary(m1, source_file, scheme, hemi, measure),
                     m1.ret, source_file, scheme, hemi, measure, force, outcome)

run_single_hemisphere(m, source_file, scheme, hemi, measure, force, outcome1, outcome2) ==
    ExportStep(parcellate_single_hemisphere(m, source_file, scheme, hemi, force, outcome1),
               source_file, scheme, hemi, measure, force, outcome2)

(***************************************************************************)
(* The stage calls a client makes, one after the other.  last is the       *)
(* record of the most recent call: its arguments, the filesystem and the   *)
(* environment it started from, its events and how it ended.               *)
(***************************************************************************)
NoCall ==
    [ op |-> "none", source |-> <<>>, scheme |-> <<>>, hemi |-> <<>>,
      measure |-> NoMeasure, force |-> FALSE, fsBefore |-> {}, envBefore |-> NoEnv,
      ev |-> <<>>, exc |-> "none", msg |-> "", ret |-> NoRet,
      repeat |-> FALSE, evFirst |-> <<>> ]

\* whether the call repeats the previous call: same operation, same arguments
Repeats(op, source_file, scheme, hemi, measure, force) ==
    /\ last.op = op
    /\ last.source = source_file
    /\ last.scheme = scheme
    /\ last.hemi = hemi
    /\ last.measure = measure
    /\ last.force = force

\* repeat and evFirst are history: whether the call repeats the one before it,
\* and then the events of that first invocation
Record(op, source_file, scheme, hemi, measure, force, m) ==
    [ op |-> op, source |-> source_file, scheme |-> scheme, hemi |-> hemi,
      measure |-> measure, force |-> force, fsBefore |-> fs, envBefore |-> environ,
      ev |-> m.ev, exc |-> m.exc, msg |-> m.msg, ret |-> m.ret,
      repeat |-> Repeats(op, source_file, scheme, hemi, measure, force),
      evFirst |-> IF Repeats(op, source_file, scheme, hemi, measure, force)
                  THEN last.ev ELSE <<>> ]

\* whether the run spawned the command of the stage
Spawned(ev, stage) == \E i \in 1..Len(ev) : ev[i].type = "spawn" /\ ev[i].stage = stage

Finish(op, source_file, scheme, hemi, measure, force, m) ==
    /\ fs' = m.fs
    /\ environ' = m.env
    /\ last' = Record(op, source_file, scheme, hemi, measure, force, m)
    /\ ncalls' = ncalls + 1
    /\ UNCHANGED <<vres, dres, tres, pres>>

\* NativeRegistration.run_single_hemisphere(source_file, scheme, hemi, force)
CallLabel(source_file, scheme, hemi, force, outcome) ==
    /\ ncalls < MaxCalls
    /\ \E m \in { Registration_run_single_hemisphere(Start(fs, environ), source_file,
                                                      scheme, hemi, force, outcome) } :
           /\ Spawned(m.ev, "label") \/ outcome = "ok"
           /\ Finish("label", source_file, scheme, hemi, NoMeasure, force, m)

\* NativeParcellation.parcellate_single_hemisphere(source_file, scheme, hemi, force)
CallStats(source_file, scheme, hemi, force, outcome) ==
    /\ ncalls < MaxCalls
    /\ \E m \in { parcellate_single_hemisphere(Start(fs, environ), source_file, scheme,
                                                hemi, force, outcome) } :
           /\ Spawned(m.ev, "stats") \/ outcome = "ok"
           /\ Finish("stats", source_file, scheme, hemi, NoMeasure, force, m)

\* NativeParcellation.run_single_hemisphere(source_file, scheme, hemi, measure, force)
CallExport(source_file, scheme, hemi, measure, force, outcome1, outcome2) ==
    /\ ncalls < MaxCalls
    /\ \E m \in { run_single_hemisphere(Start(fs, environ), source_file, scheme, hemi,
                                         measure, force, outcome1, outcome2) } :
           /\ Spawned(m.ev, "stats") \/ outcome1 = "ok"
           /\ Spawned(m.ev, "export") \/ outcome2 = "ok"
           /\ Finish("export", source_file, scheme, hemi, measure, force, m)

NoValidation == [hemi |-> <<>>, measure |-> <<>>, result |-> "", check |-> ""]
NoDataset == [op |-> "none"]

\* the metrics that index the rows of the table of a source file (two of
\* StructureManager.CORTICAL_MEASURES) and the parcel labels that name its columns
Metrics == {"surface_area_mm^2", "gray_matter_volume_mm^3"}
Parcels == {"parcel1", "parcel2"}
Cells == Metrics \X Parcels

\* pd.DataFrame(index=self.generate_rows(source_file), columns=...): every cell
\* is NaN
EmptyTable == [c \in Cells |-> "nan"]

NoMerge == [op |-> "none", table |-> EmptyTable]
NoPure == [op |-> "none"]

Init ==
    /\ fs = {}
    /\ environ = NoEnv
    /\ last = NoCall
    /\ ncalls = 0
    /\ vres = NoValidation
    /\ dres = NoDataset
    /\ tres = NoMerge
    /\ pres = NoPure

Next ==
    \/ \E s \in Sources, p \in Schemes, h \in KnownHemis, f \in BOOLEAN, o \in ToolOutcomes :
          CallLabel(s, p, h, f, o)
    \/ \E s \in Sources, p \in Schemes, h \in KnownHemis, f \in BOOLEAN, o \in ToolOutcomes :
          CallStats(s, p, h, f, o)
    \/ \E s \in Sources, p \in Schemes, h \in KnownHemis, c \in CallMeasures, f \in BOOLEAN,
          o1 \in ToolOutcomes, o2 \in ToolOutcomes :
          CallExport(s, p, h, c, f, o1, o2)

Spec == Init /\ [][Next]_vars

(***************************************************************************)
(* Reading the events of a call.                                           *)
(***************************************************************************)
Stages == {"label", "stats", "export"}

SpawnCount(ev, stage) ==
    Cardinality({i \in DOMAIN ev : ev[i].type = "spawn" /\ ev[i].stage = stage})

NoSpawn(ev) == \A i \in DOMAIN ev : ev[i].type # "spawn"

\* the stage neither started a process nor set SUBJECTS_DIR
StageIdle(ev, stage) ==
    \A i \in DOMAIN ev : ev[i].stage = stage => ev[i].type = "probe"

AllExitZero(ev) == \A i \in DOMAIN ev : ev[i].type = "exit" => ev[i].arg = 0

\* the registry entry a stage reads for a region label
StageKey(stage, hemi) ==
    CASE stage = "label" -> IF IsHemisphere(hemi) THEN "gcs" ELSE "gcs_subcortex"
      [] stage = "stats" -> IF IsHemisphere(hemi) THEN "ctab" ELSE "gcs_subcortex"
      [] OTHER           -> "none"

SchemeDefines(scheme, stage, hemi) ==
    stage = "export" \/ parcellations(scheme, StageKey(stage, hemi)) # <<>>

LastLabel == LabelOutputFile(last.source, last.scheme, last.hemi)
LastStats == StatsOutputFile(last.source, last.scheme, last.hemi)
LastTable == TableOutputFile(last.source, last.scheme, last.hemi, last.measure)

(***************************************************************************)
(* Claims about the stage calls.                                           *)
(***************************************************************************)

\* C1: skip-if-exists.  A stage entered with force false while its canonical
\* output exists starts no process and does not set SUBJECTS_DIR: the labeling
\* and the statistics call leave the filesystem and SUBJECTS_DIR as they were,
\* and the export step of run_single_hemisphere does neither.
C1_SkipIfExists ==
    /\ (last.op = "label" /\ ~last.force /\ LastLabel \in last.fsBefore)
          => (NoSpawn(last.ev) /\ environ = last.envBefore /\ fs = last.fsBefore)
    /\ (last.op = "stats" /\ ~last.force /\ LastStats \in last.fsBefore)
          => (NoSpawn(last.ev) /\ environ = last.envBefore /\ fs = last.fsBefore)
    /\ (last.op = "export" /\ ~last.force /\ LastStats \in last.fsBefore)
          => StageIdle(last.ev, "stats")
    /\ (last.op = "export" /\ ~last.force /\ LastTable \in last.fsBefore)
          => StageIdle(last.ev, "export")

C1_Witness ==
    /\ last.op = "export"
    /\ ~last.force
    /\ LastStats \in last.fsBefore
    /\ LastTable \in last.fsBefore
    /\ last.exc = "none"
    /\ last.ret.exists

\* C2: stage ordering.  When the export stage runs the statistics command for a
\* unit whose labeling output is missing, the labeling command has been spawned
\* earlier in the same call (labeling, then statistics, then export).
C2_LabelingFirst ==
    \A i \in DOMAIN last.ev :
        ( /\ last.op = "export"
          /\ last.ev[i].type = "spawn"
          /\ last.ev[i].stage = "stats"
          /\ LastLabel \notin last.fsBefore )
        => \E j \in 1..(i - 1) : last.ev[j].type = "spawn" /\ last.ev[j].stage = "label"

C4_ForceRuns ==
    last.force
    => \A i \in DOMAIN last.ev :
          (last.ev[i].type = "probe"
              /\ SchemeDefines(last.scheme, last.ev[i].stage, last.hemi))
          => \E j \in (i + 1)..Len(last.ev) :
                last.ev[j].type = "spawn" /\ last.ev[j].stage = last.ev[i].stage

C4_Witness ==
    /\ last.op = "export"
    /\ last.force
    /\ LastStats \in last.fsBefore
    /\ LastTable \in last.fsBefore
    /\ SpawnCount(last.ev, "stats") = 1
    /\ SpawnCount(last.ev, "export") = 1

\* C5: validation precedes execution.  A direct call of run_single_hemisphere
\* with a measure that is not permitted for the region label raises the error
\* having spawned no process and with SUBJECTS_DIR as it was before the call.
C5_ValidationFirst ==
    (last.op = "export" /\ validate_measure(last.hemi, last.measure) # "ok")
    => /\ last.exc = "ValueError"
       /\ NoSpawn(last.ev)
       /\ environ = last.envBefore

\* C7: a failed execution is surfaced.  A call in which a spawned process exited
\* with a non-zero status ends with an error instead of returning normally.
C7_FailureSurfaced ==
    (\E i \in DOMAIN last.ev : last.ev[i].type = "exit" /\ last.ev[i].arg # 0)
    => last.exc # "none"

\* C10: environment.  Whenever a stage spawns a process, SUBJECTS_DIR equals the
\* parent directory of the source file of the call.
C10_EnvironmentAtSpawn ==
    \A i \in DOMAIN last.ev :
        last.ev[i].type = "spawn" => last.ev[i].arg.env = Parent(last.source)

(***************************************************************************)
(* Direct calls of the measure validators, over every region label and     *)
(* every measure of the model.                                             *)
(***************************************************************************)
\* NativeParcellation.validate_measure(hemi, measure) and
\* TransformationManager.check_measure(measure, hemi) on the same arguments
CallValidate(hemi, measure) ==
    /\ ncalls < MaxCalls
    /\ vres' = [ hemi |-> hemi, measure |-> measure,
                 result |-> validate_measure(hemi, measure),
                 check |-> check_measure(measure, hemi) ]
    /\ ncalls' = ncalls + 1
    /\ UNCHANGED <<fs, environ, last, dres, tres, pres>>

NextValidate == \E h \in Hemis, c \in AllMeasures : CallValidate(h, c)

SpecValidate == Init /\ [][NextValidate]_vars

\* C6: measure validation is exact per region group.  For lh and rh the
\* validator succeeds iff the measure is in CORTICAL_MEASURES, for subcortex iff
\* it is in SUBCORTICAL_MEASURES.
C6_ValidateExact ==
    /\ vres.hemi \in {<<"lh">>, <<"rh">>}
          => /\ vres.result = "ok" <=> vres.measure \in CORTICAL_MEASURES
             /\ vres.check = "ok" <=> vres.measure \in CORTICAL_MEASURES
    /\ vres.hemi = <<"subcortex">>
          => /\ vres.result = "ok" <=> vres.measure \in SUBCORTICAL_MEASURES
             /\ vres.check = "ok" <=> vres.measure \in SUBCORTICAL_MEASURES

\* thickness, a cortical measure, is rejected for subcortex
C6_Witness ==
    /\ vres.hemi = <<"subcortex">>
    /\ vres.measure = <<"thickness">>
    /\ vres.result = "Cannot run subcortical statistics"

(***************************************************************************)
(* The dataset: subjects, their sessions and source files, as the managers *)
(* read them from self.subjects.  Each subject of the model has one        *)
(* session with one source file.                                           *)
(***************************************************************************)
DatasetSubjects == {"01", "02"}

SubjectSources(label) ==
    IF label = "01" THEN << <<"dirA", "/", "sub1">> >>
    ELSE IF label = "02" THEN << <<"dirB", "/", "sub2">> >>
    ELSE <<>>

\* sorted(self.subjects.keys())
SortedSubjects == <<"01", "02">>

\* what a caller passes as participant_label: nothing, one label, a list in any
\* order, a label the dataset does not hold
Selections == { <<>>, <<"01">>, <<"02">>, <<"01", "02">>, <<"02", "01">>, <<"99", "01">> }

\* FreesurferManager.validate_participant_label
validate_participant_label(participant_label) ==
    IF participant_label # <<>> THEN participant_label ELSE SortedSubjects

\* the region labels in the order of HEMISPHERES_LABELS + SUBCORTICAL_LABELS
HemisphereList == << <<"lh">>, <<"rh">> >>
LabelList == HemisphereList \o << <<"subcortex">> >>

(***************************************************************************)
(* StructureManager: the aggregation of one source file and the dataset    *)
(* run.  och gives the outcome of the tool for each region label.          *)
(***************************************************************************)
RECURSIVE parcellate_hemispheres(_, _, _, _, _, _)
\* the loop of parcellate_single_source over hemispheres
parcellate_hemispheres(m, hemispheres, source_file, scheme, force, och) ==
    IF hemispheres = <<>> \/ m.exc # "none" THEN m
    ELSE parcellate_hemispheres(
             parcellate_single_hemisphere(m, source_file, scheme, Head(hemispheres),
                                          force, och[Head(hemispheres)]),
             Tail(hemispheres), source_file, scheme, force, och)

\* NativeParcellation.parcellate_single_source with hemi=None, which
\* StructureManager reaches as transformation_manager.parcellation_manager
\* .run_single_source
parcellate_single_source(m, source_file, scheme, force, och) ==
    parcellate_hemispheres(m, LabelList, source_file, scheme, force, och)

\* StructureManager.DEFAULT_OUTPUT_PATTERN "{parcellation_scheme}.pickle"
PickleFile(source_file, scheme) ==
    Join(Join(source_file, <<"stats">>), scheme \o Dot \o <<"pickle">>)

\* read_stats_file(path, parcels): the file at path is read
EvRead(stage, path) == [type |-> "read", stage |-> stage, arg |-> path]

RECURSIVE read_stats_files(_, _, _, _)
\* the loop over HEMISPHERES_LABELS: read_stats_file raises FileNotFoundError
\* when the stats file of the hemisphere does not exist
read_stats_files(m, hemispheres, source_file, scheme) ==
    IF hemispheres = <<>> \/ m.exc # "none" THEN m
    ELSE IF StatsOutputFile(source_file, scheme, Head(hemispheres)) \notin m.fs
    THEN Raise(m, "FileNotFoundError", "does not exist")
    ELSE read_stats_files(
             [m EXCEPT !.ev = Append(@, EvRead("table",
                              StatsOutputFile(source_file, scheme, Head(hemispheres))))],
             Tail(hemispheres), source_file, scheme)

\* data.to_pickle(out_file)
to_pickle(m, out_file) == IF m.exc # "none" THEN m ELSE [m EXCEPT !.fs = @ \cup {out_file}]

StructureStage_rebuild(m1, source_file, scheme, force, och) ==
    to_pickle(
        read_stats_files(
            parcellate_single_source(m1, source_file, scheme, force, och),
            HemisphereList, source_file, scheme),
        PickleFile(source_file, scheme))

\* the body of run_single_source after out_file has been probed (the run m1):
\* "if out_file.exists(): return pd.read_pickle(out_file)", whatever force is
StructureStage(m1, source_file, scheme, force, och) ==
    IF m1.ret.exists THEN m1
    ELSE to_pickle(
             read_stats_files(
                 parcellate_single_source(m1, source_file, scheme, force, och),
                 HemisphereList, source_file, scheme),
             PickleFile(source_file, scheme))

\* the value returned is the table; ret tells whether it was read from out_file
Structure_run_single_source(m, source_file, scheme, force, och) ==
    [ StructureStage(OutputDictionary(m, "table", PickleFile(source_file, scheme)),
                     source_file, scheme, force, och)
      EXCEPT !.ret = [path |-> PickleFile(source_file, scheme),
                      exists |-> PickleFile(source_file, scheme) \in m.fs] ]

RECURSIVE Structure_run_sources(_, _, _, _, _)
Structure_run_sources(m, source_files, scheme, force, och) ==
    IF source_files = <<>> \/ m.exc # "none" THEN m
    ELSE Structure_run_sources(
             Structure_run_single_source(m, Head(source_files), scheme, force, och),
             Tail(source_files), scheme, force, och)

\* StructureManager.run_single_subject: validate_session returns
\* self.subjects.get(participant_label), None for a label the dataset does not
\* hold, and iterating None raises TypeError
Structure_run_single_subject(m, participant_label, scheme, force, och) ==
    IF participant_label \notin DatasetSubjects
    THEN Raise(m, "TypeError", "NoneType is not iterable")
    ELSE Structure_run_sources(m, SubjectSources(participant_label), scheme, force, och)

(***************************************************************************)
(* A dataset run d carries the run m, the labels whose processing was      *)
(* started, the labels whose processing raised, and the result built so    *)
(* far: the labels it holds an entry for.                                  *)
(***************************************************************************)
StartDataset(files, env) ==
    [m |-> Start(files, env), entered |-> <<>>, failed |-> {}, keys |-> {}]

\* one iteration of StructureManager.run_dataset: no exception is caught
StructureIteration(d, m1, participant_label) ==
    [ m |-> m1,
      entered |-> Append(d.entered, participant_label),
      failed |-> IF m1.exc # "none" THEN d.failed \cup {participant_label} ELSE d.failed,
      keys |-> IF m1.exc # "none" THEN d.keys ELSE d.keys \cup {participant_label} ]

RECURSIVE Structure_run_dataset(_, _, _, _, _)
Structure_run_dataset(d, participant_labels, scheme, force, oc) ==
    IF participant_labels = <<>> \/ d.m.exc # "none" THEN d
    ELSE Structure_run_dataset(
             StructureIteration(
                 d,
                 Structure_run_single_subject(d.m, Head(participant_labels), scheme,
                                              force, oc[Head(participant_labels)]),
                 Head(participant_labels)),
             Tail(participant_labels), scheme, force, oc)

(***************************************************************************)
(* NativeRegistration: the dataset run.                                    *)
(***************************************************************************)
\* NativeRegistration.run_single_subject: sessions is
\* self.subjects.get(participant_label) or session, None for a label the
\* dataset does not hold, and iterating None raises TypeError; otherwise the
\* loop reads self.subjects.get(session) and the method returns the empty
\* dictionary
Registration_run_single_subject(m, participant_label) ==
    IF participant_label \notin DatasetSubjects
    THEN Raise(m, "TypeError", "NoneType is not iterable")
    ELSE m

\* one iteration of NativeRegistration.run_dataset:
\* except (FileNotFoundError, TraitError): continue
RegistrationIteration(d, m1, participant_label) ==
    [ m |-> IF m1.exc \in {"FileNotFoundError", "TraitError"}
            THEN [m1 EXCEPT !.exc = "none", !.msg = ""] ELSE m1,
      entered |-> Append(d.entered, participant_label),
      failed |-> IF m1.exc # "none" THEN d.failed \cup {participant_label} ELSE d.failed,
      keys |-> IF m1.exc # "none" THEN d.keys ELSE d.keys \cup {participant_label} ]

RECURSIVE Registration_run_dataset(_, _)
Registration_run_dataset(d, participant_labels) ==
    IF participant_labels = <<>> \/ d.m.exc # "none" THEN d
    ELSE Registration_run_dataset(
             RegistrationIteration(
                 d, Registration_run_single_subject(d.m, Head(participant_labels)),
                 Head(participant_labels)),
             Tail(participant_labels))

(***************************************************************************)
(* The dataset runs as actions.  dres is what the caller of the run is     *)
(* left with: whether the run returned, the exception that left it         *)
(* otherwise, and the labels the returned result holds an entry for.       *)
(***************************************************************************)
DatasetOutcomes == [DatasetSubjects -> [KnownHemis -> ToolOutcomes]]

\* whether the run started the statistics command of the region of the subject
SpawnedFor(ev, participant_label, scheme, hemi) ==
    \E i \in DOMAIN ev, k \in DOMAIN SubjectSources(participant_label) :
        /\ ev[i].type = "spawn"
        /\ ToolOutput(ev[i].arg.cmd) =
               StatsOutputFile(SubjectSources(participant_label)[k], scheme, hemi)

\* what the run needs to reach the statistics command of the region of the
\* subject: the subject is one of the run, the scheme defines the region's
\* registry entry, the subject's table is not cached
MaySpawnFor(files, selection, participant_label, scheme, hemi) ==
    /\ \E i \in DOMAIN validate_participant_label(selection) :
           validate_participant_label(selection)[i] = participant_label
    /\ SchemeDefines(scheme, "stats", hemi)
    /\ \E k \in DOMAIN SubjectSources(participant_label) :
           PickleFile(SubjectSources(participant_label)[k], scheme) \notin files

\* a tool outcome other than "ok" is chosen only for a command the run may
\* start, and then only for one it did start
OutcomesMayMatter(oc, files, selection, scheme) ==
    \A l \in DatasetSubjects, h \in KnownHemis :
        IF oc[l][h] = "ok" THEN TRUE ELSE MaySpawnFor(files, selection, l, scheme, h)

OutcomesMatter(oc, ev, scheme) ==
    \A l \in DatasetSubjects, h \in KnownHemis :
        IF oc[l][h] = "ok" THEN TRUE ELSE SpawnedFor(ev, l, scheme, h)

SourceOutcomesMatter(och, ev, source_file, scheme) ==
    \A h \in KnownHemis :
        IF och[h] = "ok" THEN TRUE
        ELSE \E i \in DOMAIN ev :
                 /\ ev[i].type = "spawn"
                 /\ ToolOutput(ev[i].arg.cmd) = StatsOutputFile(source_file, scheme, h)

DatasetResult(op, selection, scheme, force, d) ==
    [ op |-> op, selection |-> selection, scheme |-> scheme, force |-> force,
      order |-> validate_participant_label(selection),
      fsBefore |-> fs,
      entered |-> d.entered, failed |-> d.failed, ev |-> d.m.ev,
      exc |-> d.m.exc, returned |-> d.m.exc = "none",
      keys |-> IF d.m.exc = "none" THEN d.keys ELSE {} ]

FinishDataset(op, selection, scheme, force, d) ==
    /\ fs' = d.m.fs
    /\ environ' = d.m.env
    /\ dres' = DatasetResult(op, selection, scheme, force, d)
    /\ ncalls' = ncalls + 1
    /\ UNCHANGED <<last, vres, tres, pres>>

\* StructureManager.run_dataset(parcellation_scheme, participant_label, force)
CallStructureDataset(selection, scheme, force, oc) ==
    /\ ncalls < MaxRuns
    /\ OutcomesMayMatter(oc, fs, selection, scheme) = TRUE
    /\ \E d \in { Structure_run_dataset(StartDataset(fs, environ),
                                        validate_participant_label(selection),
                                        scheme, force, oc) } :
           /\ OutcomesMatter(oc, d.m.ev, scheme) = TRUE
           /\ FinishDataset("structure", selection, scheme, force, d)

\* NativeRegistration.run_dataset(parcellation_scheme, participant_label, force)
CallRegistrationDataset(selection, scheme, force) ==
    /\ ncalls < MaxRuns
    /\ \E d \in { Registration_run_dataset(StartDataset(fs, environ),
                                           validate_participant_label(selection)) } :
           FinishDataset("registration", selection, scheme, force, d)

\* StructureManager.run_single_source(source_file, parcellation_scheme, force)
CallStructureSource(source_file, scheme, force, och) ==
    /\ ncalls < MaxRuns
    /\ \E m \in { Structure_run_single_source(Start(fs, environ), source_file, scheme,
                                               force, och) } :
           /\ SourceOutcomesMatter(och, m.ev, source_file, scheme) = TRUE
           /\ Finish("structure", source_file, scheme, <<>>, NoMeasure, force, m)

NextStructure ==
    \E s \in Sources, p \in Schemes, f \in BOOLEAN, och \in [KnownHemis -> ToolOutcomes] :
        CallStructureSource(s, p, f, och)

SpecStructure == Init /\ [][NextStructure]_vars

NextDataset ==
    \/ \E sel \in Selections, p \in Schemes, f \in BOOLEAN, oc \in DatasetOutcomes :
          CallStructureDataset(sel, p, f, oc)
    \/ \E sel \in Selections, p \in Schemes, f \in BOOLEAN :
          CallRegistrationDataset(sel, p, f)

SpecDataset == Init /\ [][NextDataset]_vars

(***************************************************************************)
(* Claims about the dataset runs.                                          *)
(***************************************************************************)
\* the kinds of error the specification calls recoverable
Recoverable == {"FileNotFoundError", "TraitError"}

\* the processing of a subject of the run failed with a recoverable error
RecoverableFailure ==
    /\ dres.op # "none"
    /\ dres.failed # {}
    /\ dres.exc \in Recoverable \cup {"none"}

\* C8: a failing subject does not abort a dataset run.  When the processing of
\* one subject fails with a recoverable error, the remaining subjects are still
\* processed and the run returns normally.
C8_FailureDoesNotAbort ==
    RecoverableFailure =>
        /\ dres.returned
        /\ \A i \in DOMAIN dres.order :
               \E j \in DOMAIN dres.entered : dres.entered[j] = dres.order[i]

\* C9: a failed subject is not silently dropped.  After a dataset run in which
\* the processing of a subject failed, the returned result holds an entry for
\* that subject that marks the failure.
C9_FailureMarked ==
    RecoverableFailure => (dres.returned /\ dres.failed \subseteq dres.keys)

\* the order of Python's sorted() on the participant labels of the model
LabelOrder == <<"01", "02", "99">>

LabelRank(participant_label) ==
    CHOOSE i \in DOMAIN LabelOrder : LabelOrder[i] = participant_label

Ascending(participant_labels) ==
    \A i \in DOMAIN participant_labels, j \in DOMAIN participant_labels :
        i < j => LabelRank(participant_labels[i]) < LabelRank(participant_labels[j])

\* C11: fixed iteration order.  A dataset run processes the subjects in
\* ascending sorted label order, however the caller selected the participants
\* (none, one label, a list in any order).
C11_SortedSubjectOrder ==
    dres.op # "none" => Ascending(dres.entered)

\* the scheme defines every registry entry the stages read
SchemeComplete(scheme) ==
    \A key \in {"gcs", "gcs_subcortex", "ctab"} : parcellations(scheme, key) # <<>>

\* the measures permitted for a region label
PermittedMeasures(hemi) ==
    IF hemi \in HEMISPHERES_LABELS THEN CORTICAL_MEASURES ELSE SUBCORTICAL_MEASURES

\* C12: end-to-end completion.  After a dataset run with a scheme that defines
\* every lookup table and atlas and a tool that exited 0 on every invocation,
\* the run has returned and the canonical outputs of labeling, statistics and
\* export exist for every region label of every source file of every subject
\* of the run.
C12_AllOutputsPresent ==
    (dres.op # "none" /\ SchemeComplete(dres.scheme) /\ AllExitZero(dres.ev)
        /\ \A i \in DOMAIN dres.order : dres.order[i] \in DatasetSubjects)
    => /\ dres.returned
       /\ \A i \in DOMAIN dres.order :
            \A k \in DOMAIN SubjectSources(dres.order[i]), h \in KnownHemis :
               /\ LabelOutputFile(SubjectSources(dres.order[i])[k], dres.scheme, h) \in fs
               /\ StatsOutputFile(SubjectSources(dres.order[i])[k], dres.scheme, h) \in fs
               /\ \A c \in PermittedMeasures(h) :
                     TableOutputFile(SubjectSources(dres.order[i])[k], dres.scheme, h, c)
                         \in fs

(***************************************************************************)
(* The merge of StructureManager.run_single_source: the statistics of one  *)
(* hemisphere (a fragment: a rectangular frame of metrics by parcels) are  *)
(* assigned into the table of the source file.                             *)
(***************************************************************************)
CellValues == {"nan", "v1", "v2"}

\* the frames read_stats_file may return: hemi_data.index, hemi_data.columns
\* and the values
Fragments ==
    UNION { { [rows |-> rows, cols |-> cols, val |-> val] :
                val \in [rows \X cols -> CellValues] } :
            rows \in (SUBSET Metrics) \ {{}}, cols \in (SUBSET Parcels) \ {{}} }

loc_assign_replace(table, frag) ==
    [c \in Cells |-> IF c \in frag.rows \X frag.cols THEN frag.val[c] ELSE "nan"]

\* data.loc[(participant_label, session, source_name, hemi_data.index),
\*          hemi_data.columns] = hemi_data.loc[hemi_data.index, hemi_data.columns].values
loc_assign(table, frag) ==
    [c \in Cells |-> IF c \in frag.rows \X frag.cols THEN frag.val[c] ELSE table[c]]

\* one iteration of the loop over HEMISPHERES_LABELS
MergeHemisphere(frag) ==
    /\ ncalls < MaxMerges
    /\ tres' = [op |-> "merge", before |-> tres.table, frag |-> frag,
                table |-> loc_assign(tres.table, frag)]
    /\ ncalls' = ncalls + 1
    /\ UNCHANGED <<fs, environ, last, vres, dres, pres>>

NextMerge == \E frag \in Fragments : MergeHemisphere(frag)

SpecMerge == Init /\ [][NextMerge]_vars

\* C13: aggregation is non-destructive.  A merge writes exactly the cells whose
\* (row, column) address is in the fragment; every other cell of the table keeps
\* the value it had before the merge.
C13_MergeWritesFragmentOnly ==
    tres.op = "merge" =>
        \A c \in Cells :
            IF c \in tres.frag.rows \X tres.frag.cols
            THEN tres.table[c] = tres.frag.val[c]
            ELSE tres.table[c] = tres.before[c]

\* a fragment supplying only the volume of parcel1 is merged into a table whose
\* area of parcel1 is filled: the area is kept and the volume is added
C13_Witness ==
    /\ tres.op = "merge"
    /\ tres.frag.rows = {"gray_matter_volume_mm^3"}
    /\ tres.frag.cols = {"parcel1"}
    /\ tres.frag.val[<<"gray_matter_volume_mm^3", "parcel1">>] = "v2"
    /\ tres.before[<<"surface_area_mm^2", "parcel1">>] = "v1"
    /\ tres.table[<<"surface_area_mm^2", "parcel1">>] = "v1"
    /\ tres.table[<<"gray_matter_volume_mm^3", "parcel1">>] = "v2"

(***************************************************************************)
(* Claims about the aggregation of one source file.                        *)
(***************************************************************************)
LastPickle == PickleFile(last.source, last.scheme)

\* C14: cache-aware aggregation.  When the serialized table exists and force is
\* false, run_single_source returns the table read from it, enters no upstream
\* stage and spawns no process; the filesystem and SUBJECTS_DIR are left as
\* they were.
C14_CachedTable ==
    (last.op = "structure" /\ ~last.force /\ LastPickle \in last.fsBefore)
    => /\ last.exc = "none"
       /\ last.ret.exists
       /\ \A i \in DOMAIN last.ev : last.ev[i].stage = "table"
       /\ fs = last.fsBefore
       /\ environ = last.envBefore

C14_Witness ==
    /\ last.op = "structure"
    /\ ~last.force
    /\ LastPickle \in last.fsBefore
    /\ last.ret.exists
    /\ NoSpawn(last.ev)

\* C15: forced aggregation recomputes.  When run_single_source is called with
\* force true while the serialized table exists, the stored table is not
\* returned as is: the upstream statistics stage is entered again and the table
\* is rebuilt.
C15_ForcedRebuild ==
    (last.op = "structure" /\ last.force /\ LastPickle \in last.fsBefore)
    => /\ ~last.ret.exists
       /\ \E i \in DOMAIN last.ev : last.ev[i].stage = "stats"

(***************************************************************************)
(* utils/bids.py: match_filters.  A file name is the sequence of its       *)
(* "_"-separated parts, a part the sequence of its "-"-separated segments. *)
(* A filter mapping is the sequence of its (key, value) items in the       *)
(* dictionary's order.                                                     *)
(***************************************************************************)
\* BIDS_ENTITIES: the key, the literal its pattern starts with, and what the
\* pattern asks of the rest: "alnum" for "-([a-zA-Z0-9]+)", "LR" for "-(L|R)",
\* "xfm" for "-([a-zA-Z0-9]+).*xfm"
BIDS_ENTITIES ==
    { <<"ceagent", "ce", "alnum">>, <<"atlas", "atlas", "alnum">>,
      <<"roi", "roi", "alnum">>, <<"label", "label", "alnum">>,
      <<"desc", "desc", "alnum">>, <<"resolution", "res", "alnum">>,
      <<"from", "from", "xfm">>, <<"to", "to", "xfm">>, <<"mode", "mode", "xfm">>,
      <<"hemi", "hemi", "LR">>, <<"den", "den", "alnum">>,
      <<"model", "model", "alnum">>, <<"subset", "subset", "alnum">>,
      <<"session", "ses", "alnum">> }

EntityKeys == { e[1] : e \in BIDS_ENTITIES }

\* BIDS_ENTITIES.get(key), for a key of the registry
Entity(key) == CHOOSE e \in BIDS_ENTITIES : e[1] = key

\* re.match(pattern, part)
PatternMatches(entity, part) ==
    /\ Len(part) >= 2
    /\ part[1] = entity[2]
    /\ CASE entity[3] = "alnum" -> TRUE
         [] entity[3] = "LR"    -> part[2] \in {"L", "R"}
         [] OTHER               -> \E k \in 3..Len(part) : part[k] = "xfm"

\* the test of a part, were it part.split("-")[-1] == value alone
SomePartMatches_valueonly(entity, parts, value) ==
    \E i \in DOMAIN parts : parts[i][Len(parts[i])] = value

\* re.match(pattern, part) and part.split("-")[-1] == value, for some part
SomePartMatches(entity, parts, value) ==
    \E i \in DOMAIN parts :
        PatternMatches(entity, parts[i]) /\ parts[i][Len(parts[i])] = value

RECURSIVE match_filters_lenient(_, _)
match_filters_lenient(parts, bids_filters) ==
    IF bids_filters = <<>> THEN [exc |-> "none", ret |-> "True"]
    ELSE IF Head(bids_filters)[1] \in EntityKeys
              /\ SomePartMatches(Entity(Head(bids_filters)[1]), parts,
                                 Head(bids_filters)[2])
    THEN match_filters_lenient(parts, Tail(bids_filters))
    ELSE IF match_filters_lenient(parts, Tail(bids_filters)).exc # "none"
    THEN match_filters_lenient(parts, Tail(bids_filters))
    ELSE [exc |-> "none", ret |-> "False"]

RECURSIVE match_filters(_, _)
\* the loop over bids_filters.items(): an unknown key raises when the loop
\* reaches it; otherwise all(flags.values())
match_filters(parts, bids_filters) ==
    IF bids_filters = <<>> THEN [exc |-> "none", ret |-> "True"]
    ELSE IF Head(bids_filters)[1] \notin EntityKeys
    THEN [exc |-> "ValueError", ret |-> "none"]
    ELSE IF match_filters(parts, Tail(bids_filters)).exc # "none"
    THEN match_filters(parts, Tail(bids_filters))
    ELSE IF SomePartMatches(Entity(Head(bids_filters)[1]), parts, Head(bids_filters)[2])
    THEN match_filters(parts, Tail(bids_filters))
    ELSE [exc |-> "none", ret |-> "False"]

\* Path(in_file).name.split("_") of the file names of the model
FileNames ==
    { << <<"sub", "01">>, <<"ses", "01">>, <<"ce", "corrected">>, <<"T1w">> >>,
      << <<"sub", "02">>, <<"hemi", "L">>, <<"T1w">> >>,
      << <<"from", "MNI", "xfm">>, <<"ses", "01", "xfm">> >> }

FilterKeys == {"session", "ceagent", "from", "hemi", "subject"}
FilterValues == {"01", "corrected", "xfm"}
FilterItems == FilterKeys \X FilterValues

\* the mappings of at most two items; the keys of a dictionary are distinct
Filters ==
    {<<>>} \cup { <<a>> : a \in FilterItems }
           \cup { f \in FilterItems \X FilterItems : f[1][1] # f[2][1] }

CallMatchFilters(in_file, bids_filters) ==
    /\ ncalls < MaxCalls
    /\ pres' = [ op |-> "match_filters", in_file |-> in_file, filters |-> bids_filters,
                 exc |-> match_filters(in_file, bids_filters).exc,
                 ret |-> match_filters(in_file, bids_filters).ret ]
    /\ ncalls' = ncalls + 1
    /\ UNCHANGED <<fs, environ, last, vres, dres, tres>>

NextFilters == \E n \in FileNames, flt \in Filters : CallMatchFilters(n, flt)

SpecFilters == Init /\ [][NextFilters]_vars

\* C16: unknown entity names are rejected.  match_filters raises ValueError for
\* every filter mapping that holds a key outside BIDS_ENTITIES, for every file
\* name and whatever the other items and their order; it returns no boolean.
C16_UnknownEntityRejected ==
    (pres.op = "match_filters"
        /\ \E i \in DOMAIN pres.filters : pres.filters[i][1] \notin EntityKeys)
    => (pres.exc = "ValueError" /\ pres.ret = "none")

\* the unknown key comes after a key of the registry whose value no part has
C16_Witness ==
    /\ pres.op = "match_filters"
    /\ pres.filters = << <<"session", "corrected">>, <<"subject", "01">> >>
    /\ pres.exc = "ValueError"

(***************************************************************************)
(* Claims about the canonical paths and the commands.                      *)
(***************************************************************************)
\* the path the builder of a stage computes from the arguments of the call
CanonicalPath(stage, source_file, scheme, hemi, measure) ==
    CASE stage = "label" -> LabelOutputFile(source_file, scheme, hemi)
      [] stage = "stats" -> StatsOutputFile(source_file, scheme, hemi)
      [] OTHER           -> TableOutputFile(source_file, scheme, hemi, measure)

\* C18: canonical paths are a pure function of the unit.  The path each of the
\* three builders returns is determined by (source file, scheme, region label,
\* measure) alone, and a repeated call returns the same paths as the first,
\* whatever the filesystem and SUBJECTS_DIR have become in between.
C18_PathsPure ==
    last.op \in Stages =>
        /\ \A i \in DOMAIN last.ev :
              last.ev[i].type = "probe" =>
                  last.ev[i].arg.path =
                      CanonicalPath(last.ev[i].stage, last.source, last.scheme,
                                    last.hemi, last.measure)
        /\ last.repeat =>
              \A i \in DOMAIN last.ev, j \in DOMAIN last.evFirst :
                  ( /\ last.ev[i].type = "probe"
                    /\ last.evFirst[j].type = "probe"
                    /\ last.ev[i].stage = last.evFirst[j].stage )
                  => last.ev[i].arg.path = last.evFirst[j].arg.path

\* a repeated export call on a filesystem and a SUBJECTS_DIR the first call
\* changed: the probes of the first saw no file, those of the second see them
C18_Witness ==
    /\ last.op = "export"
    /\ last.repeat
    /\ last.fsBefore # {}
    /\ last.envBefore # NoEnv
    /\ \E i \in DOMAIN last.ev, j \in DOMAIN last.evFirst :
          /\ last.ev[i].type = "probe"
          /\ last.evFirst[j].type = "probe"
          /\ last.ev[i].stage = "export"
          /\ last.evFirst[j].stage = "export"
          /\ last.ev[i].arg.exists
          /\ ~last.evFirst[j].arg.exists
          /\ last.ev[i].arg.path = last.evFirst[j].arg.path

\* C19: the cache key is the path the tool writes.  The output file named in
\* the command a statistics or export stage starts (-f, --sum, --tablefile) is
\* the canonical path of the unit, the one the stage probed before to decide
\* whether to skip.
C19_CommandWritesCacheKey ==
    \A i \in DOMAIN last.ev :
        (last.ev[i].type = "spawn" /\ last.ev[i].stage \in {"stats", "export"})
        => /\ ToolOutput(last.ev[i].arg.cmd) =
                  CanonicalPath(last.ev[i].stage, last.source, last.scheme,
                                last.hemi, last.measure)
           /\ \E j \in 1..(i - 1) :
                 /\ last.ev[j].type = "probe"
                 /\ last.ev[j].stage = last.ev[i].stage
                 /\ last.ev[j].arg.path = ToolOutput(last.ev[i].arg.cmd)

\* an export call for a hemisphere that starts both commands, which write the
\* two canonical files
C19_Witness ==
    /\ last.op = "export"
    /\ last.hemi = <<"lh">>
    /\ last.exc = "none"
    /\ SpawnCount(last.ev, "stats") = 1
    /\ SpawnCount(last.ev, "export") = 1
    /\ LastStats \in fs
    /\ LastTable \in fs

\* the processes started and not yet ended after the first k events
Running(ev, k) ==
    Cardinality({i \in 1..k : ev[i].type = "spawn"})
        - Cardinality({i \in 1..k : ev[i].type = "exit"})

\* C20: no overlapping invocations.  At most one process started by a call is
\* running at any time: when a process is spawned every process spawned before
\* it has exited, and the call ends only after its last process has exited.
C20_NoOverlap ==
    /\ \A k \in 0..Len(last.ev) : Running(last.ev, k) <= 1
    /\ \A i \in DOMAIN last.ev :
          last.ev[i].type = "spawn" => Running(last.ev, i - 1) = 0
    /\ Running(last.ev, Len(last.ev)) = 0

\* a call that spawned two processes, one after the other
C20_Witness ==
    /\ last.op = "export"
    /\ SpawnCount(last.ev, "stats") = 1
    /\ SpawnCount(last.ev, "export") = 1
    /\ \E i \in DOMAIN last.ev, j \in DOMAIN last.ev :
          /\ i < j
          /\ last.ev[i].type = "exit"
          /\ last.ev[i].stage = "stats"
          /\ last.ev[j].type = "spawn"
          /\ last.ev[j].stage = "export"

\* C21: a missing scheme definition fails without side effects.  When the
\* scheme has no entry for the key the statistics stage reads,
\* parcellate_single_hemisphere raises the validation error having spawned no
\* process and with SUBJECTS_DIR as it was before the call.
C21_MissingSchemeNoSideEffect ==
    (last.op = "stats" /\ ~SchemeDefines(last.scheme, "stats", last.hemi))
    => /\ last.exc = "ValueError"
       /\ NoSpawn(last.ev)
       /\ environ = last.envBefore

\* ---------------------------------------------------------------------------
\* DataGrabber.build_path: the entity mapping handed to the renderer.
\* An entity mapping is a function from entity names to values.

EntityNames == {"subject", "session", "hemi"}
ReplacementNames == {"session", "desc"}
EntityValues == {"01", "02"}

\* the mapping build_path starts from: the dictionary given, or the dictionary
\* parse_file_entities returned for the file given
EntityMappings ==
    UNION { [ks -> EntityValues] : ks \in SUBSET EntityNames }

ReplacementItems == ReplacementNames \X EntityValues

\* replacements.items() of the mappings of at most two items
Replacements ==
    {<<>>} \cup { <<a>> : a \in ReplacementItems }
           \cup { r \in ReplacementItems \X ReplacementItems : r[1][1] # r[2][1] }

\* source[key] = value, were it source.setdefault(key, value)
setitem_keep(source, key, value) ==
    [ k \in DOMAIN source \cup {key} |->
        IF k \in DOMAIN source THEN source[k] ELSE value ]

\* source[key] = value
setitem(source, key, value) ==
    [ k \in DOMAIN source \cup {key} |-> IF k = key THEN value ELSE source[k] ]

RECURSIVE build_path_entities(_, _)
\* for key, value in replacements.items(): source[key] = value
build_path_entities(source, replacements) ==
    IF replacements = <<>> THEN source
    ELSE build_path_entities(
             setitem(source, Head(replacements)[1], Head(replacements)[2]),
             Tail(replacements))

CallBuildPath(source, replacements) ==
    /\ ncalls < MaxCalls
    /\ pres' = [ op |-> "build_path", source |-> source,
                 replacements |-> replacements,
                 handed |-> build_path_entities(source, replacements) ]
    /\ ncalls' = ncalls + 1
    /\ UNCHANGED <<fs, environ, last, vres, dres, tres>>

NextBuildPath ==
    \E src \in EntityMappings, rep \in Replacements : CallBuildPath(src, rep)

SpecBuildPath == Init /\ [][NextBuildPath]_vars

\* the keys of a replacements mapping
ReplacementKeys(replacements) ==
    { replacements[i][1] : i \in DOMAIN replacements }

\* C30: overrides win in path building.  The entity mapping build_path hands to
\* the renderer has the keys of the source and of the overrides; every override
\* key has the override's value, and every other entity keeps the source's.
C30_OverridesWin ==
    pres.op = "build_path"
    => /\ DOMAIN pres.handed
            = DOMAIN pres.source \cup ReplacementKeys(pres.replacements)
       /\ \A i \in DOMAIN pres.replacements :
            pres.handed[pres.replacements[i][1]] = pres.replacements[i][2]
       /\ \A k \in DOMAIN pres.source \ ReplacementKeys(pres.replacements) :
            pres.handed[k] = pres.source[k]

\* one override replaces a value of the source, another adds an entity, and an
\* entity of the source is left alone
C30_Witness ==
    /\ pres.op = "build_path"
    /\ pres.source = [k \in {"subject", "session"} |-> "01"]
    /\ pres.replacements = << <<"session", "02">>, <<"desc", "01">> >>
    /\ pres.handed["session"] = "02"

\* ---------------------------------------------------------------------------
\* NativeParcellation.run_single_source: the loop over region labels and
\* measures of one source file.

\* CORTICAL_MEASURES and SUBCORTICAL_MEASURES in the order of the lists
CorticalMeasureList ==
    << <<"area">>, <<"volume">>, <<"thickness">>, <<"thicknessstd">>,
       <<"thickness", ".", "T1">>, <<"meancurv">>, <<"gauscurv">>,
       <<"foldind">>, <<"curvind">> >>
SubcorticalMeasureList == << <<"volume">>, <<"std">>, <<"mean">> >>

\* the hemi argument as the list the loop goes over: None is <<>>, a string
\* is the list of that string
HemiArgs == { <<>>, << <<"lh">> >>, << <<"subcortex">> >> }

\* the measures argument: None is <<>>
MeasureArgs ==
    { <<>>, << <<"thickness">> >>, << <<"volume">> >> }

\* the outcome of the tool of the statistics stage for each region label, and
\* of the tool of the export stage
SourceOutcomes ==
    [ stats : [ KnownHemis -> ToolOutcomes ],
      table : ToolOutcomes ]

EmptyDict == [k \in {} |-> {}]

\* a run of run_single_source: the run m of the stages, the units (label,
\* measure) handed to run_single_hemisphere so far, and the outputs dictionary
StartSource(files, env) ==
    [m |-> Start(files, env), units |-> <<>>, outputs |-> EmptyDict]

RECURSIVE source_measures(_, _, _, _, _, _, _)
\* for measure in hemi_measures: validate_measure, then
\* outputs[hemi][measure] = run_single_hemisphere(...)
source_measures(r, hemi_measures, source_file, scheme, hemi, force, oc) ==
    IF hemi_measures = <<>> \/ r.m.exc # "none" THEN r
    ELSE IF validate_measure(hemi, Head(hemi_measures)) # "ok"
    THEN [r EXCEPT !.m = Raise(@, "ValueError",
                               validate_measure(hemi, Head(hemi_measures)))]
    ELSE LET m2 == run_single_hemisphere(r.m, source_file, scheme, hemi,
                                         Head(hemi_measures), force,
                                         oc.stats[hemi], oc.table)
         IN source_measures(
                [ m |-> m2,
                  units |-> Append(r.units, <<hemi, Head(hemi_measures)>>),
                  outputs |-> IF m2.exc # "none" THEN r.outputs
                              ELSE setitem(r.outputs, hemi,
                                           setitem(r.outputs[hemi],
                                                   Head(hemi_measures), m2.ret)) ],
                Tail(hemi_measures), source_file, scheme, hemi, force, oc)

\* hemi_measures, were the default of either group the measure both groups share
HemiMeasures_common(hemi, measures, previous) ==
    IF hemi \in HEMISPHERES_LABELS \/ Lower(hemi) = <<"subcortex">>
    THEN (IF measures # <<>> THEN measures ELSE << <<"volume">> >>)
    ELSE previous

\* hemi_measures of the iteration for hemi; a label of neither group leaves the
\* variable as the iteration before left it
HemiMeasures(hemi, measures, previous) ==
    IF hemi \in HEMISPHERES_LABELS
    THEN (IF measures # <<>> THEN measures ELSE CorticalMeasureList)
    ELSE IF Lower(hemi) = <<"subcortex">>
    THEN (IF measures # <<>> THEN measures ELSE SubcorticalMeasureList)
    ELSE previous

Unbound == <<"unbound">>

RECURSIVE source_hemispheres(_, _, _, _, _, _, _, _)
\* for hemi in hemispheres: outputs[hemi] = {}, then the loop over its measures
source_hemispheres(r, hemispheres, previous, source_file, scheme, measures, force, oc) ==
    IF hemispheres = <<>> \/ r.m.exc # "none" THEN r
    ELSE IF HemiMeasures(Head(hemispheres), measures, previous) = Unbound
    THEN [r EXCEPT !.m = Raise(@, "UnboundLocalError", "hemi_measures"),
                   !.outputs = setitem(@, Head(hemispheres), EmptyDict)]
    ELSE source_hemispheres(
             source_measures(
                 [r EXCEPT !.outputs = setitem(@, Head(hemispheres), EmptyDict)],
                 HemiMeasures(Head(hemispheres), measures, previous),
                 source_file, scheme, Head(hemispheres), force, oc),
             Tail(hemispheres),
             HemiMeasures(Head(hemispheres), measures, previous),
             source_file, scheme, measures, force, oc)

\* NativeParcellation.run_single_source(source_file, scheme, hemi, measures, force)
Parcellation_run_single_source(r, source_file, scheme, hemi, measures, force, oc) ==
    source_hemispheres(r, IF hemi # <<>> THEN hemi ELSE LabelList, Unbound,
                       source_file, scheme, measures, force, oc)

\* the spawn events of the statistics command of the region label: the command
\* that writes the statistics file of the label
StatsSpawns(ev, source_file, scheme, hemi) ==
    { i \in 1..Len(ev) :
        /\ ev[i].type = "spawn"
        /\ ev[i].stage = "stats"
        /\ ToolOutput(ev[i].arg.cmd) = StatsOutputFile(source_file, scheme, hemi) }

\* a tool can fail only if the call can reach its command: the label is one of
\* the call and the scheme defines the entry the command is rendered from
RunOutcomesMayMatter(oc, hemi, scheme) ==
    IF \E h \in DOMAIN oc.stats :
           /\ oc.stats[h] = "fail"
           /\ ~(SchemeDefines(scheme, "stats", h)
                  /\ (hemi = <<>> \/ hemi = <<h>>))
    THEN FALSE
    ELSE IF oc.table = "fail"
              /\ \A h \in DOMAIN oc.stats : ~SchemeDefines(scheme, "stats", h)
    THEN FALSE
    ELSE TRUE

\* a failing tool is one that ran
RunOutcomesMatter(oc, ev, source_file, scheme) ==
    IF ~SourceOutcomesMatter(oc.stats, ev, source_file, scheme) THEN FALSE
    ELSE IF oc.table = "fail" /\ ~Spawned(ev, "export") THEN FALSE
    ELSE TRUE

\* the record of a run_single_source call in last
SourceRecord(source_file, scheme, hemi, measures, force, r) ==
    [ op |-> "run_single_source", source |-> source_file, scheme |-> scheme,
      hemi |-> hemi, measure |-> measures, force |-> force,
      fsBefore |-> fs, envBefore |-> environ,
      ev |-> r.m.ev, exc |-> r.m.exc, msg |-> r.m.msg, ret |-> r.m.ret,
      repeat |-> FALSE, evFirst |-> <<>>,
      units |-> r.units, outputs |-> r.outputs ]

\* the number of run_single_source calls of a behaviour
MaxSourceRuns == 1

CallRunSingleSource(source_file, scheme, hemi, measures, force, oc) ==
    /\ ncalls < MaxSourceRuns
    /\ RunOutcomesMayMatter(oc, hemi, scheme) = TRUE
    /\ \E r \in { Parcellation_run_single_source(StartSource(fs, environ), source_file,
                                                 scheme, hemi, measures, force, oc) } :
           /\ RunOutcomesMatter(oc, r.m.ev, source_file, scheme) = TRUE
           /\ fs' = r.m.fs
           /\ environ' = r.m.env
           /\ last' = SourceRecord(source_file, scheme, hemi, measures, force, r)
           /\ ncalls' = ncalls + 1
           /\ UNCHANGED <<vres, dres, tres, pres>>

NextSource ==
    \E src \in Sources, sch \in Schemes, h \in HemiArgs, ms \in MeasureArgs,
       f \in BOOLEAN, oc \in SourceOutcomes :
        CallRunSingleSource(src, sch, h, ms, f, oc)

SpecSource == Init /\ [][NextSource]_vars

\* the elements of a list
Elems(seq) == { seq[i] : i \in DOMAIN seq }

\* the (label, measure) pairs a call of run_single_source asks for
RequestedUnits(hemi, measures) ==
    { u \in Elems(IF hemi # <<>> THEN hemi ELSE LabelList) \X AllMeasures :
        u[2] \in Elems(HemiMeasures(u[1], measures, Unbound)) }

\* C23: validation precedes execution in run_single_source.  If any requested
\* (label, measure) pair is invalid, the call raises the validation error and no
\* process has been spawned for any unit of the call.
C23_ValidationBeforeExecution ==
    (last.op = "run_single_source"
        /\ \E u \in RequestedUnits(last.hemi, last.measure) :
               validate_measure(u[1], u[2]) # "ok")
    => (last.exc = "ValueError" /\ NoSpawn(last.ev))

\* C26: one statistics extraction per region label per call.  Within one call
\* of run_single_source the statistics command of a region label is spawned at
\* most once, whatever the number of measures of the label and whatever force.
C26_StatsOncePerLabel ==
    last.op = "run_single_source"
    => \A h \in KnownHemis :
           Cardinality(StatsSpawns(last.ev, last.source, last.scheme, h)) <= 1

\* the units of a call with neither label nor measures
DefaultUnits ==
    (HEMISPHERES_LABELS \X CORTICAL_MEASURES)
        \cup (SUBCORTICAL_LABELS \X SUBCORTICAL_MEASURES)

\* C29: default unit coverage.  A call of run_single_source with no region label
\* and no measures that returns has processed exactly the units (lh, m), (rh, m)
\* for the cortical measures m and (subcortex, m) for the subcortical measures
\* m, each once, and the mapping it returns has exactly those labels and, under
\* each label, exactly those measures.
C29_DefaultCoverage ==
    (last.op = "run_single_source" /\ last.hemi = <<>> /\ last.measure = <<>>
        /\ last.exc = "none")
    => /\ Elems(last.units) = DefaultUnits
       /\ Len(last.units) = Cardinality(DefaultUnits)
       /\ DOMAIN last.outputs = HEMISPHERES_LABELS \cup SUBCORTICAL_LABELS
       /\ \A h \in DOMAIN last.outputs :
              DOMAIN last.outputs[h] = { u[2] : u \in { v \in DefaultUnits : v[1] = h } }

\* a default call that ran every command and returned
C29_Witness ==
    /\ last.op = "run_single_source"
    /\ last.hemi = <<>>
    /\ last.measure = <<>>
    /\ last.exc = "none"
    /\ Len(last.units) = Cardinality(DefaultUnits)
    /\ Spawned(last.ev, "export")

\* the region labels whose statistics stage the run entered
ProcessedLabels(ev, source_file, scheme) ==
    { h \in KnownHemis :
        \E i \in DOMAIN ev :
            /\ ev[i].type = "probe"
            /\ ev[i].stage = "stats"
            /\ ev[i].arg.path = StatsOutputFile(source_file, scheme, h) }

\* the region labels whose statistics file the run read
ReadLabels(ev, source_file, scheme) ==
    { h \in KnownHemis :
        \E i \in DOMAIN ev :
            /\ ev[i].type = "read"
            /\ ev[i].arg = StatsOutputFile(source_file, scheme, h) }

\* C24: the aggregator covers every region group.  A call of
\* StructureManager.run_single_source that builds the table reads the statistics
\* file of every region label processed for the source file (lh, rh and
\* subcortex) before it writes the table.
C24_EveryGroupMerged ==
    (last.op = "structure" /\ last.exc = "none" /\ ~last.ret.exists)
    => ProcessedLabels(last.ev, last.source, last.scheme)
           \subseteq ReadLabels(last.ev, last.source, last.scheme)

\* C25: the stages read what the stage before them writes.  The annotation
\* (-a) of the cortical statistics command and the segmentation (--seg) of the
\* subcortical one are the labeling stage's canonical output for the same source
\* file, scheme and label; the --inputs of the subcortical export command is the
\* canonical statistics path the statistics stage probed.
C25_StagesChained ==
    last.op \in {"stats", "export"}
    => \A i \in DOMAIN last.ev :
           last.ev[i].type = "spawn"
           => /\ (last.ev[i].stage = "stats" /\ IsHemisphere(last.hemi))
                     => last.ev[i].arg.cmd.a = LastLabel
              /\ (last.ev[i].stage = "stats" /\ IsSubcortex(last.hemi))
                     => last.ev[i].arg.cmd.seg = LastLabel
              /\ (last.ev[i].stage = "export" /\ IsSubcortex(last.hemi))
                     => /\ last.ev[i].arg.cmd.inputs = LastStats
                        /\ \E j \in 1..i :
                               /\ last.ev[j].type = "probe"
                               /\ last.ev[j].stage = "stats"
                               /\ last.ev[j].arg.path = last.ev[i].arg.cmd.inputs

\* the subcortical statistics and export commands have both run in one call
C25_Witness ==
    /\ last.op = "export"
    /\ last.hemi = <<"subcortex">>
    /\ Spawned(last.ev, "stats")
    /\ Spawned(last.ev, "export")
    /\ last.exc = "none"

\* ---------------------------------------------------------------------------
\* The stage calls with the region labels a client may pass beyond lh, rh and
\* "subcortex": a label in another case, and a label of neither group.

ArgHemis == Hemis \ { <<"rh">>, <<"subcortex">> }

NextLabels ==
    \/ \E s \in Sources, p \in Schemes, h \in ArgHemis, f \in BOOLEAN, o \in ToolOutcomes :
          CallLabel(s, p, h, f, o)
    \/ \E s \in Sources, p \in Schemes, h \in ArgHemis, f \in BOOLEAN, o \in ToolOutcomes :
          CallStats(s, p, h, f, o)
    \/ \E s \in Sources, p \in Schemes, h \in ArgHemis, c \in CallMeasures, f \in BOOLEAN,
          o1 \in ToolOutcomes, o2 \in ToolOutcomes :
          CallExport(s, p, h, c, f, o1, o2)

SpecLabels == Init /\ [][NextLabels]_vars

\* C27: an unknown region label runs nothing.  For a label that is neither lh nor
\* rh nor, whatever its case, "subcortex", each stage call (labeling, statistics,
\* statistics with export) ends with an error, has spawned no process and leaves
\* SUBJECTS_DIR and the files as they were.
C27_UnknownLabelRunsNothing ==
    (last.op \in {"label", "stats", "export"}
        /\ last.hemi \notin HEMISPHERES_LABELS
        /\ Lower(last.hemi) # <<"subcortex">>)
    => /\ last.exc # "none"
       /\ NoSpawn(last.ev)
       /\ environ = last.envBefore
       /\ fs = last.fsBefore

\* the call with the unknown label follows a call that set SUBJECTS_DIR
C27_Witness ==
    /\ last.op = "export"
    /\ last.hemi = <<"vermis">>
    /\ last.exc = "UnboundLocalError"
    /\ last.envBefore # NoEnv

\* C28: measure validation covers every subcortical label.  For every label
\* that path building takes as subcortical, whatever its case, a measure outside
\* SUBCORTICAL_MEASURES is rejected with the validation error and no export
\* command is rendered or spawned.
C28_SubcorticalMeasureRejected ==
    (last.op = "export"
        /\ Lower(last.hemi) = <<"subcortex">>
        /\ last.measure \notin SUBCORTICAL_MEASURES)
    => (last.exc = "ValueError" /\ ~Spawned(last.ev, "export"))

\* ---------------------------------------------------------------------------
\* DataGrabber.build_path called with an entity mapping: source is the caller's
\* dictionary itself, and the override loop assigns into it.  original is the
\* mapping as the caller made it; reuse tells that the caller hands the
\* dictionary of its previous call again.

CallBuildPathDict(entities, replacements, reuse) ==
    /\ ncalls < MaxCalls
    /\ IF reuse
       THEN pres.op = "build_path_dict" /\ entities = pres.caller
       ELSE TRUE
    /\ pres' = [ op |-> "build_path_dict",
                 original |-> IF reuse THEN pres.original ELSE entities,
                 source |-> entities,
                 replacements |-> replacements,
                 handed |-> build_path_entities(entities, replacements),
                 caller |-> build_path_entities(entities, replacements) ]
    /\ ncalls' = ncalls + 1
    /\ UNCHANGED <<fs, environ, last, vres, dres, tres>>

NextBuildPathDict ==
    \E src \in EntityMappings, rep \in Replacements, reuse \in BOOLEAN :
        CallBuildPathDict(src, rep, reuse)

SpecBuildPathDict == Init /\ [][NextBuildPathDict]_vars

\* C31: path building has no effect on its inputs.  build_path called with an
\* entity mapping leaves the caller's mapping as it was, and the mapping rendered
\* is the caller's original mapping with the overrides of this call only.
C31_BuildPathLeavesInput ==
    pres.op = "build_path_dict"
    => /\ pres.caller = pres.source
       /\ pres.handed = build_path_entities(pres.original, pres.replacements)

\* C32: filter matching is a conjunction over the components of the file name.
\* For filters whose keys are all in BIDS_ENTITIES, match_filters raises nothing
\* and returns True exactly when every filter key has a component of the file
\* name that matches the pattern of its entity and ends with the filter's value;
\* the empty filter mapping matches every file.
C32_MatchIsConjunction ==
    (pres.op = "match_filters"
        /\ \A i \in DOMAIN pres.filters : pres.filters[i][1] \in EntityKeys)
    => /\ pres.exc = "none"
       /\ pres.ret \in {"True", "False"}
       /\ pres.ret = "True"
            <=> \A i \in DOMAIN pres.filters :
                    \E j \in DOMAIN pres.in_file :
                        /\ PatternMatches(Entity(pres.filters[i][1]), pres.in_file[j])
                        /\ pres.in_file[j][Len(pres.in_file[j])] = pres.filters[i][2]

\* of two registered keys one has a matching component and the other has none
C32_Witness ==
    /\ pres.op = "match_filters"
    /\ pres.filters = << <<"session", "01">>, <<"ceagent", "01">> >>
    /\ \E j \in DOMAIN pres.in_file : pres.in_file[j] = <<"ses", "01">>
    /\ pres.ret = "False"
    /\ pres.exc = "none"

\* ---------------------------------------------------------------------------
\* The canonical paths of two units of one source file.  The builders take any
\* scheme name: they format it into the pattern and do not look it up.

SchemeNames ==
    { <<"x">>, <<"T1", ".", "x">>, <<"lh", ".", "x">>, <<"x", "_", "subcortex">> }

PathMeasures == { <<"thickness">>, <<"thickness", ".", "T1">>, <<"volume">>, <<"mean">> }

\* (region label, scheme, measure)
PathUnits == KnownHemis \X SchemeNames \X PathMeasures

\* build_table_output_dictionary(...)["path"]; <<>> when validate_measure raises
TablePath(source_file, unit) ==
    IF validate_measure(unit[1], unit[3]) # "ok" THEN <<>>
    ELSE TableOutputFile(source_file, unit[2], unit[1], unit[3])

\* build_stats_output_dictionary(...)["path"]
StatsPath(source_file, unit) == StatsOutputFile(source_file, unit[2], unit[1])

\* the number of path comparisons of a behaviour
MaxPathCalls == 1

CallBuildPaths(source_file, a, b) ==
    /\ ncalls < MaxPathCalls
    /\ pres' = [ op |-> "paths", source |-> source_file, a |-> a, b |-> b,
                 tables |-> <<TablePath(source_file, a), TablePath(source_file, b)>>,
                 stats |-> <<StatsPath(source_file, a), StatsPath(source_file, b)>> ]
    /\ ncalls' = ncalls + 1
    /\ UNCHANGED <<fs, environ, last, vres, dres, tres>>

NextPaths == \E s \in Sources, a \in PathUnits, b \in PathUnits : CallBuildPaths(s, a, b)

SpecPaths == Init /\ [][NextPaths]_vars

\* C33: no two units share a cache entry.  For one source file, two distinct
\* (region label, scheme, measure) triples with a permitted measure have distinct
\* export paths, and two distinct (region label, scheme) pairs have distinct
\* statistics paths, whatever the scheme names ('.' and '_' included).
C33_PathsInjective ==
    pres.op = "paths"
    => /\ (pres.a # pres.b /\ pres.tables[1] # <<>> /\ pres.tables[2] # <<>>)
              => pres.tables[1] # pres.tables[2]
       /\ (<<pres.a[1], pres.a[2]>> # <<pres.b[1], pres.b[2]>>)
              => pres.stats[1] # pres.stats[2]

\* C34: hemisphere consistency of the statistics command.  In the command
\* configure_cortex_parcellation_command renders for a hemisphere h of {lh, rh},
\* every hemisphere-specific file (the cortex label, the statistics file, the
\* annotation) is a file of h; the command for rh names no lh file.
C34_HemisphereConsistent ==
    (last.op = "stats" /\ IsHemisphere(last.hemi))
    => \A i \in DOMAIN last.ev :
           (last.ev[i].type = "spawn" /\ last.ev[i].stage = "stats")
           => /\ Name(last.ev[i].arg.cmd.cortex)[1] = last.hemi[1]
              /\ Name(last.ev[i].arg.cmd.f)[1] = last.hemi[1]
              /\ Name(last.ev[i].arg.cmd.a)[1] = last.hemi[1]
              /\ last.ev[i].arg.cmd.hemi = last.hemi

\* C35: the exists flag returned is a snapshot taken before the command.  The
\* "exists" field of the dictionary a stage call returns tells whether the
\* canonical output of the stage existed when the call began; a call that has
\* just created the file still returns exists = False.
C35_ExistsIsSnapshot ==
    /\ (last.op = "label" /\ last.exc = "none")
           => last.ret = [path |-> LastLabel, exists |-> LastLabel \in last.fsBefore]
    /\ (last.op = "stats" /\ last.exc = "none")
           => last.ret = [path |-> LastStats, exists |-> LastStats \in last.fsBefore]
    /\ (last.op = "export" /\ last.exc = "none")
           => last.ret = [path |-> LastTable, exists |-> LastTable \in last.fsBefore]

\* the statistics call has just written its file and returns exists = False
C35_Witness ==
    /\ last.op = "stats"
    /\ last.exc = "none"
    /\ Spawned(last.ev, "stats")
    /\ LastStats \notin last.fsBefore
    /\ LastStats \in fs
    /\ ~last.ret.exists

====
